---- MODULE Spec2Model ----
(***************************************************************************)
(* Model of the per-device websocket broadcast hub of serial-bridge        *)
(* (src/web.py): the registry `sockets`, the websocket open/close          *)
(* handlers, sendAll, the deferred sendConnectionInfo tasks, the           *)
(* run-command and serial-connection POST handlers and the node listener.  *)
(*                                                                         *)
(* One action is one event-loop callback run to completion; no handler of  *)
(* web.py awaits, so nothing interleaves inside a handler.                 *)
(***************************************************************************)
EXTENDS Integers, Sequences, FiniteSets, TLC

(***************************************************************************)
(* Bounds and the fixed configuration handed to listen().                  *)
(***************************************************************************)

\* functools.lru_cache() without arguments keeps the 128 most recent keys.
LruMaxSize == 128

\* The handler objects (one per websocket connection, each used once).
Subscribers == {"A", "B"}

\* Client addresses (handler.request.remote_ip).
Addresses == {"10.0.0.1", "10.0.0.2"}

\* Host names, represented by their rank in lexicographic order.
MaxName == 2
Names == 1..MaxName

\* Keys of the dict `devices`.
DeviceNames == {"Lab", "Rig"}

\* The dict `slugs`: URL slug -> device name.
slugs == [s \in {"lab", "rig"} |-> IF s = "lab" THEN "Lab" ELSE "Rig"]

\* Slugs a request may carry: the known ones and one that matches no device.
RequestSlugs == {"lab", "rig", "nope"}

\* device.commands: a collection of permitted command names, or None.
None == [none |-> TRUE, names |-> {}]
Commands(names) == [none |-> FALSE, names |-> names]
commands == [d \in DeviceNames |-> IF d = "Lab" THEN Commands({"reset"}) ELSE None]

\* Values of the 'command' argument.
CommandArgs == {"reset", "format"}

\* Values of the 'state' argument.
StateArgs == {"connect", "disconnect", "toggle"}

\* device.nodes, by node name; node.deviceName is the owning device.
nodes == [d \in DeviceNames |-> IF d = "Lab" THEN {"uart0"} ELSE {"uart1"}]
NodeNames == UNION {nodes[d] : d \in DeviceNames}
deviceName(n) == CHOOSE d \in DeviceNames : n \in nodes[d]

\* Byte chunks a node may report: "A", "é" (C3 A9) and a truncated "é".
Chunks == {<<65>>, <<195, 169>>, <<195>>}

\* Source labels a node passes to its listeners.
Sources == {"serial", "tcp"}

\* How many send and sendAll calls are followed on the wire.
MaxSends == 3

\* Client addresses over the life of the process, numbered in order of first
\* arrival: one more than ipToName's cache holds.
Hosts == 1..(LruMaxSize + 1)

\* How many socket.getfqdn calls are counted for one address.
MaxLookups == 2

VARIABLES
    sockets,          \* the defaultdict: device name -> set of handlers
    conn,             \* per handler: idle, open, severed, rejected, closed
    device,           \* per handler: self.device (a device name) or "unset"
    remote_ip,        \* per handler in the registry: request.remote_ip
    tasks,            \* sendConnectionInfo tasks scheduled with ensure_future
    serialConnected,  \* per device: device.serialConnected
    cache,            \* ipToName's lru_cache, least recently used first
    lookups,          \* per address: socket.getfqdn calls made for it so far
    changes,          \* per device: successful joins and leaves so far
    published,        \* per device: sendConnectionInfo runs so far
    last,             \* what the handler that ran last did
    clock,            \* send and sendAll calls made so far, while followed
    inbox             \* per handler: what write_message wrote to it, in order

vars == <<sockets, conn, device, remote_ip, tasks, serialConnected, cache,
          lookups, changes, published, last, clock, inbox>>

(***************************************************************************)
(* Messages.  send() wraps every payload in {'version_hash': ..., **data}. *)
(***************************************************************************)

versionHash == "sha256"

Envelope(type, connected, names, node, data) ==
    [version_hash |-> versionHash, type |-> type, connected |-> connected,
     names |-> names, node |-> node, data |-> data]

\* A variant of the serial-state message that always reports the link down.
SerialStateMsgDown(flag) == Envelope("serial-state", FALSE, <<>>, "", <<>>)

\* {'type': 'serial-state', 'connected': ...}
SerialStateMsg(flag) == Envelope("serial-state", flag, <<>>, "", <<>>)

\* {'type': 'connections', 'data': names}
ConnectionsMsg(names) == Envelope("connections", FALSE, names, "", <<>>)

\* {'type': 'data', 'node': ..., 'data': ...}
DataMsg(node, text) == Envelope("data", FALSE, <<>>, node, text)

(***************************************************************************)
(* The registry: a defaultdict(set).  A key that was never inserted reads  *)
(* as the empty set (and reading it inserts it), so the dict is the total  *)
(* function that is {} wherever nothing was added.  Only names of devices  *)
(* are ever used as keys: every handler looks the slug up in slugs first.  *)
(***************************************************************************)

Members(reg, d) == reg[d]

\* sockets[self.device.name].add(self)
join(reg, d, s) == [reg EXCEPT ![d] = @ \cup {s}]

\* A variant of leave that forgets to remove the handler.
leaveKeeps(reg, d, s) == reg

\* sockets[self.device.name].remove(self), for a handler that is in the set
leave(reg, d, s) == [reg EXCEPT ![d] = @ \ {s}]

\* A variant of ensure_future that coalesces requests for the same device.
ensure_future_coalesced(q, d) ==
    IF \E i \in 1..Len(q) : q[i] = d THEN q ELSE Append(q, d)

\* A variant of ensure_future that creates the coroutine and never hands it
\* to the event loop.
ensure_future_unscheduled(q, d) == q

\* asyncio.ensure_future(WebsocketHandler.sendConnectionInfo(name)): the
\* task's first (and only) step is queued behind the ones already ready.
ensure_future(q, d) == Append(q, d)

(***************************************************************************)
(* send and sendAll.                                                       *)
(***************************************************************************)

\* write_message raises WebSocketClosedError unless the connection is live.
CanSend(s) == conn[s] = "open"

\* A variant of the iteration in which members may be missed, as when the set
\* shrinks under the loop.
OrdersOfShrinkingSet(S) ==
    {q \in UNION {[1..n -> S] : n \in 0..Cardinality(S)} :
        \A i, j \in DOMAIN q : i # j => q[i] # q[j]}

\* All the orders in which a for loop may visit the set S.
Orders(S) ==
    {q \in [1..Cardinality(S) -> S] : \A x \in S : \E i \in DOMAIN q : q[i] = x}

\* The state one sendAll call threads through its loop: the registry, the
\* handlers written to, the handlers whose send raised, and whether an
\* exception left the loop.
SendState(reg) ==
    [sockets |-> reg, delivered |-> {}, failed |-> {}, raised |-> FALSE]

\* A variant of the loop body without the try/except.
TrySendNoCatch(d, s, msg, st) ==
    IF CanSend(s)
    THEN [st EXCEPT !.delivered = @ \cup {s}]
    ELSE [st EXCEPT !.failed = @ \cup {s}, !.raised = TRUE]

\* A variant of the loop body that drops a handler whose send failed.
TrySendEvict(d, s, msg, st) ==
    IF CanSend(s)
    THEN [st EXCEPT !.delivered = @ \cup {s}]
    ELSE [st EXCEPT !.failed = @ \cup {s}, !.sockets[d] = @ \ {s}]

\* The body of sendAll's loop: try: socket.send(data) / except Exception: log
TrySend(d, s, msg, st) ==
    IF CanSend(s)
    THEN [st EXCEPT !.delivered = @ \cup {s}]
    ELSE [st EXCEPT !.failed = @ \cup {s}]

\* The for loop over the handlers in visiting order q; an exception that
\* leaves the loop body ends the loop.
RECURSIVE SendLoop(_, _, _, _)
SendLoop(d, q, msg, st) ==
    IF q = <<>> \/ st.raised
    THEN st
    ELSE SendLoop(d, Tail(q), msg, TrySend(d, Head(q), msg, st))

\* sendAll(deviceName, data), visiting sockets[deviceName] in order q.
sendAll(reg, d, msg, q) == SendLoop(d, q, msg, SendState(reg))

\* What one sendAll call did, for the record of the last handler.
Broadcast(d, msg, targets, st) ==
    [dev |-> d, msg |-> msg, targets |-> targets, delivered |-> st.delivered,
     failed |-> st.failed, raised |-> st.raised]

(***************************************************************************)
(* ipToName (lru_cache around socket.getfqdn) and the roster.              *)
(***************************************************************************)

CacheIndex(c, ip) == {i \in 1..Len(c) : c[i].ip = ip}

Without(c, i) == [j \in 1..(Len(c) - 1) |-> IF j < i THEN c[j] ELSE c[j + 1]]

\* ipToName(ip) on cache c, when socket.getfqdn would answer fqdn[ip]: a hit
\* moves the entry to the most recent end and asks nothing, a miss looks the
\* name up, stores it and evicts the oldest entry when the cache is full.
ipToName(c, ip, fqdn) ==
    IF CacheIndex(c, ip) # {}
    THEN LET i == CHOOSE i \in CacheIndex(c, ip) : TRUE
         IN  [cache |-> Append(Without(c, i), c[i]), name |-> c[i].name,
              asked |-> FALSE]
    ELSE LET e == [ip |-> ip, name |-> fqdn[ip]]
             full == Append(c, e)
         IN  [cache |-> IF Len(full) > LruMaxSize THEN Tail(full) ELSE full,
              name |-> e.name, asked |-> TRUE]

\* (ipToName(addr) for addr in addrs), visiting addrs in order q; asked are
\* the addresses socket.getfqdn was called for.
RECURSIVE ResolveAll(_, _, _, _)
ResolveAll(q, c, fqdn, acc) ==
    IF q = <<>>
    THEN [cache |-> c, names |-> acc, asked |-> {}]
    ELSE LET r == ipToName(c, Head(q), fqdn)
             rest == ResolveAll(Tail(q), r.cache, fqdn, Append(acc, r.name))
         IN  [rest EXCEPT !.asked = @ \cup (IF r.asked THEN {Head(q)} ELSE {})]

\* Insert x into the ascending sequence q, after the elements equal to it.
RECURSIVE Insert(_, _)
Insert(x, q) ==
    IF q = <<>> THEN <<x>>
    ELSE IF x < Head(q) THEN <<x>> \o q
    ELSE <<Head(q)>> \o Insert(x, Tail(q))

\* sorted(list): every element is kept, in ascending order.
RECURSIVE sorted(_)
sorted(q) ==
    IF q = <<>> THEN <<>>
    ELSE Insert(q[Len(q)], sorted(SubSeq(q, 1, Len(q) - 1)))

\* The addresses among S that ipToName has no entry for.
Uncached(c, S) == {ip \in S : CacheIndex(c, ip) = {}}

\* A variant of addrs that collects the addresses of the handlers of every
\* device.
addrsOfEveryone(reg, d) ==
    {remote_ip[h] : h \in UNION {Members(reg, x) : x \in DeviceNames}}

\* addrs = {handler.request.remote_ip for handler in sockets[deviceName]}
addrsOf(reg, d) == {remote_ip[h] : h \in Members(reg, d)}

(***************************************************************************)
(* bytes.decode(): strict UTF-8, for code points below U+0800.             *)
(***************************************************************************)

\* A variant of decode that replaces a malformed byte by U+FFFD, as
\* data.decode(errors='replace') would.
RECURSIVE decodeReplace(_)
decodeReplace(b) ==
    IF b = <<>> THEN [ok |-> TRUE, text |-> <<>>]
    ELSE IF b[1] < 128
    THEN LET r == decodeReplace(Tail(b))
         IN  [ok |-> r.ok, text |-> <<b[1]>> \o r.text]
    ELSE IF b[1] \in 194..223 /\ Len(b) >= 2 /\ b[2] \in 128..191
    THEN LET r == decodeReplace(Tail(Tail(b)))
         IN  [ok |-> r.ok, text |-> <<(b[1] - 192) * 64 + (b[2] - 128)>> \o r.text]
    ELSE LET r == decodeReplace(Tail(b))
         IN  [ok |-> r.ok, text |-> <<65533>> \o r.text]

RECURSIVE decode(_)
decode(b) ==
    IF b = <<>> THEN [ok |-> TRUE, text |-> <<>>]
    ELSE IF b[1] < 128
    THEN LET r == decode(Tail(b))
         IN  [ok |-> r.ok, text |-> <<b[1]>> \o r.text]
    ELSE IF b[1] \in 194..223 /\ Len(b) >= 2 /\ b[2] \in 128..191
    THEN LET r == decode(Tail(Tail(b)))
         IN  [ok |-> r.ok, text |-> <<(b[1] - 192) * 64 + (b[2] - 128)>> \o r.text]
    ELSE [ok |-> FALSE, text |-> <<>>]

(***************************************************************************)
(* The record of what the handler that ran last did: the operation, the    *)
(* handler and device it concerned, its argument, the error it ended with, *)
(* the collaborator calls it made, the messages it wrote with self.send    *)
(* and the sendAll calls it made.                                          *)
(***************************************************************************)

Did(op, sub, dev, arg, error, calls, sent, bcast) ==
    [op |-> op, sub |-> sub, dev |-> dev, arg |-> arg, error |-> error,
     calls |-> calls, sent |-> sent, bcast |-> bcast]

\* One message written to handler s by a direct self.send(...).
Sent(s, msg) == [to |-> s, msg |-> msg]

\* The record of one onSerialData call: the node and the bytes it was given,
\* and whether the except branch printed a traceback.
Heard(n, source, chunk, logged, bcast) ==
    [op |-> "data", sub |-> "", dev |-> deviceName(n), arg |-> source,
     error |-> "none", calls |-> <<>>, sent |-> <<>>, bcast |-> bcast,
     node |-> n, chunk |-> chunk, logged |-> logged]

\* One call of an external collaborator.
Call(fn, dev, name) == [fn |-> fn, dev |-> dev, name |-> name, nodes |-> nodes[dev]]

Init ==
    /\ sockets = [d \in DeviceNames |-> {}]
    /\ conn = [s \in Subscribers |-> "idle"]
    /\ device = [s \in Subscribers |-> "unset"]
    /\ remote_ip = [s \in Subscribers |-> "unset"]
    /\ tasks = <<>>
    /\ serialConnected = [d \in DeviceNames |-> FALSE]
    /\ cache = <<>>
    /\ lookups = [ip \in Addresses |-> 0]
    /\ changes = [d \in DeviceNames |-> 0]
    /\ published = [d \in DeviceNames |-> 0]
    /\ last = Did("init", "", "", "", "none", <<>>, <<>>, <<>>)
    /\ clock = 0
    /\ inbox = [s \in Subscribers |-> <<>>]

(***************************************************************************)
(* WebsocketHandler                                                        *)
(***************************************************************************)

\* A variant of open that writes the serial state of the first device before
\* it looks the slug up.
openGreetsFirst(s, slug, ip) ==
    /\ conn[s] = "idle"
    /\ IF slug \notin DOMAIN slugs
       THEN /\ conn' = [conn EXCEPT ![s] = "rejected"]
            /\ last' = Did("open", s, "", slug, "404", <<>>,
                           <<Sent(s, SerialStateMsg(serialConnected["Lab"]))>>, <<>>)
            /\ UNCHANGED <<sockets, device, remote_ip, tasks, changes>>
       ELSE LET d == slugs[slug]
            IN  /\ conn' = [conn EXCEPT ![s] = "open"]
                /\ remote_ip' = [remote_ip EXCEPT ![s] = ip]
                /\ device' = [device EXCEPT ![s] = d]
                /\ sockets' = join(sockets, d, s)
                /\ tasks' = ensure_future(tasks, d)
                /\ changes' = [changes EXCEPT ![d] = @ + 1]
                /\ last' = Did("open", s, d, slug, "none", <<>>,
                               <<Sent(s, SerialStateMsg(serialConnected[d]))>>, <<>>)
    /\ UNCHANGED <<serialConnected, cache, lookups, published>>

\* A variant of open that tells the serial state to every handler of the
\* device with sendAll, where open uses self.send.
openAnnounces(s, slug, ip) ==
    /\ conn[s] = "idle"
    /\ IF slug \notin DOMAIN slugs
       THEN /\ conn' = [conn EXCEPT ![s] = "rejected"]
            /\ last' = Did("open", s, "", slug, "404", <<>>, <<>>, <<>>)
            /\ UNCHANGED <<sockets, device, remote_ip, tasks, changes>>
       ELSE LET d == slugs[slug]
                msg == SerialStateMsg(serialConnected[d])
            IN  /\ conn' = [conn EXCEPT ![s] = "open"]
                /\ remote_ip' = [remote_ip EXCEPT ![s] = ip]
                /\ device' = [device EXCEPT ![s] = d]
                /\ sockets' = join(sockets, d, s)
                /\ tasks' = ensure_future(tasks, d)
                /\ changes' = [changes EXCEPT ![d] = @ + 1]
                /\ last' = Did("open", s, d, slug, "none", <<>>, <<>>,
                               <<[dev |-> d, msg |-> msg, targets |-> sockets[d] \cup {s},
                                  delivered |-> {h \in sockets[d] : CanSend(h)} \cup {s},
                                  failed |-> {h \in sockets[d] : ~CanSend(h)},
                                  raised |-> FALSE]>>)
    /\ UNCHANGED <<serialConnected, cache, lookups, published>>

\* open(slug) on a fresh handler s whose request came from address ip.
\* An unknown slug answers 404 and leaves self.device unset; the connection
\* object stays with the framework until its close notification.
open(s, slug, ip) ==
    /\ conn[s] = "idle"
    /\ IF slug \notin DOMAIN slugs
       THEN /\ conn' = [conn EXCEPT ![s] = "rejected"]
            /\ last' = Did("open", s, "", slug, "404", <<>>, <<>>, <<>>)
            /\ UNCHANGED <<sockets, device, remote_ip, tasks, changes>>
       ELSE LET d == slugs[slug]
            IN  /\ conn' = [conn EXCEPT ![s] = "open"]
                /\ remote_ip' = [remote_ip EXCEPT ![s] = ip]
                /\ device' = [device EXCEPT ![s] = d]
                /\ sockets' = join(sockets, d, s)
                /\ tasks' = ensure_future(tasks, d)
                /\ changes' = [changes EXCEPT ![d] = @ + 1]
                /\ last' = Did("open", s, d, slug, "none", <<>>,
                               <<Sent(s, SerialStateMsg(serialConnected[d]))>>, <<>>)
    /\ UNCHANGED <<serialConnected, cache, lookups, published>>

\* The transport under an open connection breaks; the close notification
\* has not run yet, and until it does every send to s raises.
sever(s) ==
    /\ conn[s] = "open"
    /\ conn' = [conn EXCEPT ![s] = "severed"]
    /\ last' = Did("sever", s, device[s], "", "none", <<>>, <<>>, <<>>)
    /\ UNCHANGED <<sockets, device, remote_ip, tasks, serialConnected, cache, lookups,
                   changes, published>>

\* on_close() of handler s.  self.device raises AttributeError when open
\* never set it; set.remove raises KeyError when s is not in the set.
on_close(s) ==
    /\ conn[s] \in {"open", "severed", "rejected", "closed"}
    /\ conn' = [conn EXCEPT ![s] = "closed"]
    /\ IF device[s] = "unset"
       THEN /\ last' = Did("close", s, "", "", "AttributeError", <<>>, <<>>, <<>>)
            /\ UNCHANGED <<sockets, tasks, changes>>
       ELSE LET d == device[s]
            IN  IF s \notin Members(sockets, d)
                THEN /\ last' = Did("close", s, d, "", "KeyError", <<>>, <<>>, <<>>)
                     /\ UNCHANGED <<sockets, tasks, changes>>
                ELSE /\ sockets' = leave(sockets, d, s)
                     /\ tasks' = ensure_future(tasks, d)
                     /\ changes' = [changes EXCEPT ![d] = @ + 1]
                     /\ last' = Did("close", s, d, "", "none", <<>>, <<>>, <<>>)
    /\ UNCHANGED <<device, remote_ip, serialConnected, cache, lookups, published>>

\* The event loop runs the oldest scheduled sendConnectionInfo(deviceName).
\* fqdn is what socket.getfqdn answers during this run, for each address
\* that has to be looked up.
sendConnectionInfo ==
    /\ tasks # <<>>
    /\ LET d == Head(tasks)
           addrs == addrsOf(sockets, d)
       IN  \E qa \in Orders(addrs), qs \in Orders(sockets[d]),
              fqdn \in [Uncached(cache, addrs) -> Names] :
               LET r == ResolveAll(qa, cache, fqdn, <<>>)
                   msg == ConnectionsMsg(sorted(r.names))
                   st == sendAll(sockets, d, msg, qs)
               IN  /\ cache' = r.cache
                   /\ lookups' = [ip \in DOMAIN lookups |->
                                     IF ip \in r.asked THEN lookups[ip] + 1
                                                       ELSE lookups[ip]]
                   /\ sockets' = st.sockets
                   /\ last' = Did("roster", "", d, "", "none", <<>>, <<>>,
                                  <<Broadcast(d, msg, sockets[d], st)>>)
                   /\ published' = [published EXCEPT ![d] = @ + 1]
    /\ tasks' = Tail(tasks)
    /\ UNCHANGED <<conn, device, remote_ip, serialConnected, changes>>

\* ipToName(ip) called on its own; getfqdn answers with the first host name.
resolve(ip) ==
    /\ LET r == ipToName(cache, ip, [a \in {ip} |-> 1])
       IN  /\ r.asked => lookups[ip] < MaxLookups
           /\ cache' = r.cache
           /\ lookups' = [lookups EXCEPT ![ip] = IF r.asked THEN @ + 1 ELSE @]
    /\ UNCHANGED <<sockets, conn, device, remote_ip, tasks, serialConnected,
                   changes, published, last, clock, inbox>>

(***************************************************************************)
(* CommandHandler                                                          *)
(***************************************************************************)

\* A variant of post that, like the serial-connection handler, ends with a
\* broadcast of the serial state.
run_command_announcing(slug, name) ==
    /\ IF slug \notin DOMAIN slugs
       THEN last' = Did("command", "", "", slug, "404", <<>>, <<>>, <<>>)
       ELSE LET d == slugs[slug]
            IN  IF commands[d].none
                THEN last' = Did("command", "", d, name, "TypeError", <<>>, <<>>, <<>>)
                ELSE IF name \notin commands[d].names
                THEN last' = Did("command", "", d, name, "403", <<>>, <<>>, <<>>)
                ELSE \E qs \in Orders(sockets[d]) :
                         LET msg == SerialStateMsg(serialConnected[d])
                             st == sendAll(sockets, d, msg, qs)
                         IN  last' = Did("command", "", d, name, "none",
                                         <<Call("run", d, name)>>, <<>>,
                                         <<Broadcast(d, msg, sockets[d], st)>>)
    /\ UNCHANGED <<sockets, conn, device, remote_ip, tasks, serialConnected,
                   cache, lookups, changes, published>>

\* post(slug) with argument command=name; the executor either returns
\* ("done") or raises ("raise"), and what it raises reaches the caller.
run_command(slug, name) ==
    /\ IF slug \notin DOMAIN slugs
       THEN last' = Did("command", "", "", slug, "404", <<>>, <<>>, <<>>)
       ELSE LET d == slugs[slug]
            IN  IF commands[d].none
                THEN last' = Did("command", "", d, name, "TypeError", <<>>, <<>>, <<>>)
                ELSE IF name \notin commands[d].names
                THEN last' = Did("command", "", d, name, "403", <<>>, <<>>, <<>>)
                ELSE \E outcome \in {"done", "raise"} :
                         last' = Did("command", "", d, name,
                                     IF outcome = "raise" THEN "CollaboratorError"
                                                          ELSE "none",
                                     <<Call("run", d, name)>>, <<>>, <<>>)
    /\ UNCHANGED <<sockets, conn, device, remote_ip, tasks, serialConnected,
                   cache, lookups, changes, published>>

(***************************************************************************)
(* SerialConnectionHandler                                                 *)
(***************************************************************************)

\* A variant of the dispatch that treats every other word as disconnect.
dispatchStateLax(state) ==
    IF state = "connect" THEN "serialConnect" ELSE "serialDisconnect"

\* A variant of the dispatch with the two branches swapped.
dispatchStateSwapped(state) ==
    IF state = "connect" THEN "serialDisconnect"
    ELSE IF state = "disconnect" THEN "serialConnect"
    ELSE "ValueError"

\* if state == 'connect' ... elif state == 'disconnect' ... else raise
dispatchState(state) ==
    IF state = "connect" THEN "serialConnect"
    ELSE IF state = "disconnect" THEN "serialDisconnect"
    ELSE "ValueError"

\* How a call of a device collaborator may end: it did its work, it silently
\* did nothing, or it raised.
Outcomes == {"done", "noop", "raise"}

\* device.serialConnected after the collaborator fn ran with the given outcome.
linkAfter(flag, fn, outcome) ==
    IF outcome = "done" THEN fn = "serialConnect" ELSE flag

\* post(slug) with argument state=state.
serial_connection(slug, state) ==
    /\ IF slug \notin DOMAIN slugs
       THEN /\ last' = Did("serial", "", "", slug, "404", <<>>, <<>>, <<>>)
            /\ UNCHANGED <<sockets, serialConnected>>
       ELSE LET d == slugs[slug]
                fn == dispatchState(state)
            IN  IF fn = "ValueError"
                THEN /\ last' = Did("serial", "", d, state, "ValueError", <<>>, <<>>, <<>>)
                     /\ UNCHANGED <<sockets, serialConnected>>
                ELSE \E outcome \in Outcomes :
                     IF outcome = "raise"
                     THEN /\ last' = Did("serial", "", d, state, "CollaboratorError",
                                         <<Call(fn, d, "")>>, <<>>, <<>>)
                          /\ UNCHANGED <<sockets, serialConnected>>
                     ELSE LET flag == linkAfter(serialConnected[d], fn, outcome)
                              msg == SerialStateMsg(flag)
                          IN  \E qs \in Orders(sockets[d]) :
                                  LET st == sendAll(sockets, d, msg, qs)
                                  IN  /\ serialConnected' =
                                             [serialConnected EXCEPT ![d] = flag]
                                      /\ sockets' = st.sockets
                                      /\ last' = Did("serial", "", d, state, "none",
                                                     <<Call(fn, d, "")>>, <<>>,
                                                     <<Broadcast(d, msg, sockets[d], st)>>)
    /\ UNCHANGED <<conn, device, remote_ip, tasks, cache, lookups, changes, published>>

(***************************************************************************)
(* The node listener registered by listen()                                *)
(***************************************************************************)

\* onSerialData(node, source, data).  A chunk that does not decode is logged
\* in the except branch and the listener returns normally.
onSerialData(n, source, chunk) ==
    /\ LET d == deviceName(n)
           r == decode(chunk)
       IN  IF source # "serial"
           THEN /\ last' = Heard(n, source, chunk, FALSE, <<>>)
                /\ UNCHANGED sockets
           ELSE IF ~r.ok
           THEN /\ last' = Heard(n, source, chunk, TRUE, <<>>)
                /\ UNCHANGED sockets
           ELSE LET msg == DataMsg(n, r.text)
                IN  \E qs \in Orders(sockets[d]) :
                        LET st == sendAll(sockets, d, msg, qs)
                        IN  /\ sockets' = st.sockets
                            /\ last' = Heard(n, source, chunk, FALSE,
                                             <<Broadcast(d, msg, sockets[d], st)>>)
    /\ UNCHANGED <<conn, device, remote_ip, tasks, serialConnected, cache, lookups,
                   changes, published>>

(***************************************************************************)
(* The wire: what each connection was handed, in order.  send() passes the *)
(* message to write_message, which queues it on the connection's stream    *)
(* behind what was written before.                                         *)
(***************************************************************************)

\* A variant of write_message that puts the new message ahead of the queue.
write_message_first(box, m) == <<m>> \o box

\* self.write_message(json.dumps(...)) on the stream of one connection.
write_message(box, m) == Append(box, m)

\* The send and sendAll calls of one handler run, in program order; each is
\* numbered when it is made and names the connections it wrote to.
Writes(l, from) ==
    [k \in 1..(Len(l.sent) + Len(l.bcast)) |->
        IF k <= Len(l.sent)
        THEN [seq |-> from + k, op |-> l.op, by |-> l.sub,
              type |-> l.sent[k].msg.type, to |-> {l.sent[k].to}]
        ELSE [seq |-> from + k, op |-> l.op, by |-> l.sub,
              type |-> l.bcast[k - Len(l.sent)].msg.type,
              to |-> l.bcast[k - Len(l.sent)].delivered]]

\* The stream of connection s after the writes w.
RECURSIVE WriteAll(_, _, _)
WriteAll(box, w, s) ==
    IF w = <<>> THEN box
    ELSE WriteAll(IF s \in Head(w).to
                  THEN write_message(box, [seq |-> Head(w).seq, op |-> Head(w).op,
                                           by |-> Head(w).by, type |-> Head(w).type])
                  ELSE box,
                  Tail(w), s)

\* The handler that has just run is followed on the wire.
Wire ==
    /\ clock + Len(last'.sent) + Len(last'.bcast) <= MaxSends
    /\ clock' = clock + Len(last'.sent) + Len(last'.bcast)
    /\ inbox' = [s \in Subscribers |-> WriteAll(inbox[s], Writes(last', clock), s)]

\* The handler that has just run is not followed.
Quiet == UNCHANGED <<clock, inbox>>

(***************************************************************************)
(* Specifications                                                          *)
(***************************************************************************)

Connections ==
    \/ \E s \in Subscribers, slug \in RequestSlugs, ip \in Addresses :
           open(s, slug, ip) /\ Quiet
    \/ \E s \in Subscribers : on_close(s) /\ Quiet

Severs == \E s \in Subscribers : sever(s) /\ Quiet

\* The event loop runs the oldest scheduled task.
RosterTask == sendConnectionInfo /\ Quiet

NodeData ==
    \E n \in NodeNames, source \in Sources, chunk \in Chunks :
        onSerialData(n, source, chunk) /\ Quiet

Control ==
    \/ \E slug \in RequestSlugs, name \in CommandArgs : run_command(slug, name) /\ Quiet
    \/ \E slug \in RequestSlugs, state \in StateArgs :
           serial_connection(slug, state) /\ Quiet

\* The whole program: every handler, in every interleaving.
Next == Connections \/ Severs \/ RosterTask \/ NodeData \/ Control

Spec == Init /\ [][Next]_vars

\* The broadcast hub while no control request arrives.
HubNext == Connections \/ Severs \/ RosterTask \/ NodeData

HubSpec == Init /\ [][HubNext]_vars

\* The control handlers, with connections coming, breaking and going while
\* the roster tasks they schedule are still waiting in the event loop.
ControlNext == Connections \/ Severs \/ Control

ControlSpec == Init /\ [][ControlNext]_vars

\* The hub when no transport breaks before its close notification, with the
\* event loop running every task it was given.
NextNoFail == Connections \/ RosterTask

FairSpec == Init /\ [][NextNoFail]_vars /\ WF_vars(RosterTask)

\* A request to bring the serial link of Lab up.
LinkUp == serial_connection("lab", "connect") /\ Quiet

\* The hub with the serial link of one device coming up at any moment, when
\* no transport breaks before its close notification and the event loop runs
\* every task.
FairLinkNext == Connections \/ RosterTask \/ LinkUp

FairLinkSpec == Init /\ [][FairLinkNext]_vars /\ WF_vars(RosterTask)

\* Every kind of broadcast (roster, node data, serial state) for every
\* device, with connections coming, breaking and going.  Who is sent a
\* message does not depend on what it carries, so each node reports one
\* chunk and each link is asked to come up.
BroadcastNext ==
    \/ Connections
    \/ Severs
    \/ RosterTask
    \/ \E n \in NodeNames : onSerialData(n, "serial", <<65>>) /\ Quiet
    \/ \E slug \in DOMAIN slugs : serial_connection(slug, "connect") /\ Quiet

BroadcastSpec == Init /\ [][BroadcastNext]_vars

\* The resolver on its own, before any connection: clients come from one new
\* address after the other, and the first and the latest client come back
\* at any moment.
ResolverInit ==
    /\ sockets = [d \in DeviceNames |-> {}]
    /\ conn = [s \in Subscribers |-> "idle"]
    /\ device = [s \in Subscribers |-> "unset"]
    /\ remote_ip = [s \in Subscribers |-> "unset"]
    /\ tasks = <<>>
    /\ serialConnected = [d \in DeviceNames |-> FALSE]
    /\ cache = <<>>
    /\ lookups = [ip \in Hosts |-> 0]
    /\ changes = [d \in DeviceNames |-> 0]
    /\ published = [d \in DeviceNames |-> 0]
    /\ last = Did("init", "", "", "", "none", <<>>, <<>>, <<>>)
    /\ clock = 0
    /\ inbox = [s \in Subscribers |-> <<>>]

\* The addresses seen so far.
Seen == {ip \in Hosts : lookups[ip] > 0}

ResolverNext ==
    \/ \E ip \in Hosts \ Seen : ip = Cardinality(Seen) + 1 /\ resolve(ip)
    \/ \E ip \in Seen : ip \in {1, Cardinality(Seen)} /\ resolve(ip)

ResolverSpec == ResolverInit /\ [][ResolverNext]_vars

\* Every kind of handler, followed on the wire for the first MaxSends send
\* and sendAll calls.  What the messages carry plays no part in their order,
\* so each kind of handler comes with one input that makes it send.
WireNext ==
    \/ \E s \in Subscribers, slug \in RequestSlugs : open(s, slug, "10.0.0.1") /\ Wire
    \/ \E s \in Subscribers : on_close(s) /\ Wire
    \/ \E s \in Subscribers : sever(s) /\ Wire
    \/ sendConnectionInfo /\ Wire
    \/ \E n \in NodeNames : onSerialData(n, "serial", <<65>>) /\ Wire
    \/ \E slug \in DOMAIN slugs : serial_connection(slug, "connect") /\ Wire
    \/ run_command("lab", "reset") /\ Wire

WireSpec == Init /\ [][WireNext]_vars

(***************************************************************************)
(* Properties                                                              *)
(***************************************************************************)

\* The handlers whose websocket was opened for device d and has not been
\* closed: what the framework, not the registry, knows.
OpenFor(d) == {s \in Subscribers : conn[s] \in {"open", "severed"} /\ device[s] = d}

\* The elements of a sequence.
Range(q) == {q[i] : i \in DOMAIN q}

\* How many tasks for device d wait in the event loop.
Pending(d) == Cardinality({i \in DOMAIN tasks : tasks[i] = d})

\* The sendAll calls of the handler that ran last.
LastBroadcasts == Range(last.bcast)

\* C1: after any sequence of opens and closes, sockets[D] holds exactly the
\* handlers opened for D and not yet closed, for every device D, and no
\* handler is in the set of more than one device.
C1_RegistryIsOpenConnections ==
    /\ \A d \in DeviceNames : Members(sockets, d) = OpenFor(d)
    /\ \A s \in Subscribers :
           Cardinality({d \in DeviceNames : s \in Members(sockets, d)}) <= 1

\* C1 witness: one handler is registered for Lab, another was registered for
\* Lab and has been closed, so joins and a leave have acted.
C1_Witness ==
    \E s, t \in Subscribers :
        /\ s # t
        /\ s \in Members(sockets, "Lab")
        /\ conn[t] = "closed" /\ device[t] = "Lab"

\* C2: within one sendAll call, a send that fails for one handler neither
\* stops the loop nor costs any other handler its message: every other
\* target is attempted, every target whose own send works gets the message,
\* and no exception leaves sendAll.
C2_FailureIsolated ==
    \A b \in LastBroadcasts :
        /\ ~b.raised
        /\ \A s, t \in b.targets :
               (s # t /\ s \in b.failed) =>
                   /\ t \in b.delivered \cup b.failed
                   /\ CanSend(t) => t \in b.delivered

\* C2 witness: a broadcast in which one send failed and another succeeded.
C2_Witness ==
    \E b \in LastBroadcasts : b.failed # {} /\ b.delivered # {}

\* C3: a handler that broadcasts leaves the registry as it was, also when
\* sends fail (the handlers whose send failed stay members), and a handler
\* leaves a set only in its own successful close notification.
C3_BroadcastKeepsRegistry ==
    [][/\ last'.bcast # <<>> =>
              /\ sockets' = sockets
              /\ \A i \in DOMAIN last'.bcast :
                     last'.bcast[i].failed \subseteq Members(sockets', last'.bcast[i].dev)
       /\ \A d \in DeviceNames, s \in Subscribers :
              (s \in Members(sockets, d) /\ s \notin Members(sockets', d)) =>
                  (last'.op = "close" /\ last'.sub = s /\ last'.error = "none")]_vars

\* C3 witness: a broadcast has just run in which a send failed, and the
\* handler it failed for is still registered.
C3_Witness ==
    \E b \in LastBroadcasts :
        b.failed # {} /\ b.failed \subseteq Members(sockets, b.dev)

\* C4: the name list of every connections message is in ascending order and
\* names no host twice.
C4_RosterSortedAndDeduplicated ==
    \A b \in LastBroadcasts :
        b.msg.type = "connections" =>
            \A i, j \in DOMAIN b.msg.names : i < j => b.msg.names[i] < b.msg.names[j]

\* C5: every successful join or leave for D schedules one roster publication
\* for D and nothing else does: the publications that ran plus those still
\* waiting equal the membership changes, so once every task has run the two
\* counts agree.
C5_OnePublicationPerChange ==
    \A d \in DeviceNames : published[d] + Pending(d) = changes[d]

\* C5 witness: every task has run after at least two membership changes for
\* Lab, and an open was rejected along the way.
C5_Witness ==
    /\ tasks = <<>>
    /\ changes["Lab"] >= 2
    /\ published["Lab"] = changes["Lab"]
    /\ \E s \in Subscribers : conn[s] = "rejected"

\* The name ipToName has cached for an address.
CachedName(ip) == cache[CHOOSE i \in CacheIndex(cache, ip) : TRUE].name

\* sendConnectionInfo has just written to s a roster for d that names exactly
\* the hosts of d's members.
RosterReached(s, d) ==
    /\ last.op = "roster" /\ last.dev = d
    /\ \E b \in LastBroadcasts :
           /\ s \in b.delivered
           /\ b.msg.type = "connections"
           /\ Range(b.msg.names) = {CachedName(remote_ip[m]) : m \in Members(sockets, d)}

\* The membership of d has just changed and s is a member.
MembershipChanged(s, d) ==
    /\ last.op \in {"open", "close"} /\ last.error = "none" /\ last.dev = d
    /\ s \in Members(sockets, d)

\* C6: when tasks are run fairly and no send fails, after a membership change
\* for D every handler that stays a member of D is sent a roster naming
\* exactly the hosts of D's members at that time; a closed handler is sent
\* nothing more.
C6_RosterFollowsChange ==
    /\ \A s \in Subscribers, d \in DeviceNames :
           MembershipChanged(s, d) ~> (s \notin Members(sockets, d) \/ RosterReached(s, d))
    /\ [][\A s \in Subscribers :
              conn[s] = "closed" =>
                  /\ \A i \in DOMAIN last'.bcast : s \notin last'.bcast[i].delivered
                  /\ \A i \in DOMAIN last'.sent : last'.sent[i].to # s]_vars

\* C6 witness: after B left Lab, A (still a member) got a roster that names
\* only A's host.
C6_Witness ==
    /\ conn["B"] = "closed" /\ device["B"] = "Lab"
    /\ RosterReached("A", "Lab")
    /\ Members(sockets, "Lab") = {"A"}

\* C7: a close notification for a handler that is in no set raises nothing
\* and leaves the registry alone.
C7_AbsentLeaveIsNoOp ==
    [][\A s \in Subscribers :
           (/\ last'.op = "close" /\ last'.sub = s
            /\ \A d \in DeviceNames : s \notin Members(sockets, d)) =>
               (last'.error = "none" /\ sockets' = sockets)]_vars

\* The collaborator a valid state argument stands for.
ActionFor(state) == IF state = "connect" THEN "serialConnect" ELSE "serialDisconnect"

\* C8: a serial-connection request with state connect (disconnect) for an
\* existing device calls the connect (disconnect) collaborator once and,
\* when it returns, makes one broadcast to the device's handlers of a
\* serial-state message carrying the link flag as it is after the call,
\* changed or not.
C8_SerialStateBroadcast ==
    (last.op = "serial" /\ last.dev \in DeviceNames
        /\ last.arg \in {"connect", "disconnect"}) =>
        /\ last.calls = <<Call(ActionFor(last.arg), last.dev, "")>>
        /\ last.error = "none" =>
               /\ Len(last.bcast) = 1
               /\ last.bcast[1].dev = last.dev
               /\ last.bcast[1].msg = SerialStateMsg(serialConnected[last.dev])
               /\ last.bcast[1].targets = Members(sockets, last.dev)
               /\ last.bcast[1].delivered =
                      {s \in Members(sockets, last.dev) : CanSend(s)}

\* C8 witness: a connect request whose collaborator returned without
\* connecting has been answered, and a handler was told connected = false.
C8_Witness ==
    /\ last.op = "serial" /\ last.arg = "connect" /\ last.error = "none"
    /\ ~serialConnected[last.dev]
    /\ last.bcast[1].delivered # {}
    /\ last.bcast[1].msg.connected = FALSE

\* C9: a serial-connection request for an existing device whose state is
\* neither connect nor disconnect ends in ValueError, calls no collaborator,
\* leaves the link flags alone and broadcasts nothing.
C9_InvalidStateRejected ==
    [][(last'.op = "serial" /\ last'.dev \in DeviceNames
           /\ last'.arg \notin {"connect", "disconnect"}) =>
           /\ last'.error = "ValueError"
           /\ last'.calls = <<>>
           /\ last'.bcast = <<>> /\ last'.sent = <<>>
           /\ serialConnected' = serialConnected]_vars

\* C9 witness: a request with state=toggle has been rejected while a device
\* was connected and had a handler.
C9_Witness ==
    /\ last.op = "serial" /\ last.arg = "toggle" /\ last.error = "ValueError"
    /\ serialConnected[last.dev]
    /\ Members(sockets, last.dev) # {}

\* Whether device d permits command name.
Permitted(d, name) == ~commands[d].none /\ name \in commands[d].names

\* C10: a run-command request for an existing device is rejected with 403
\* and calls nothing when the name is not permitted (also when the device
\* has no commands at all), and calls the executor once, with that name and
\* the device's nodes, when it is.
C10_CommandGate ==
    (last.op = "command" /\ last.dev \in DeviceNames) =>
        IF Permitted(last.dev, last.arg)
        THEN last.calls = <<Call("run", last.dev, last.arg)>>
        ELSE last.error = "403" /\ last.calls = <<>>

\* C11: a websocket open, run-command or serial-connection request whose slug
\* names no device ends in 404 and changes nothing: the registry, the link
\* flags and the scheduled tasks stay as they were, no collaborator is
\* called and no message is written to any handler.
C11_UnknownDeviceChangesNothing ==
    [][(last'.op \in {"open", "command", "serial"} /\ last'.dev \notin DeviceNames) =>
           /\ last'.error = "404"
           /\ last'.arg \notin DOMAIN slugs
           /\ sockets' = sockets /\ device' = device
           /\ serialConnected' = serialConnected /\ tasks' = tasks
           /\ last'.calls = <<>> /\ last'.sent = <<>> /\ last'.bcast = <<>>]_vars

\* C11 witness: a request for an unknown device has been answered 404 while
\* a connected device had a handler.
C11_Witness ==
    /\ last.op \in {"open", "command", "serial"} /\ last.error = "404"
    /\ \E d \in DeviceNames : Members(sockets, d) # {} /\ serialConnected[d]

\* The text each well-formed chunk stands for, written out by hand: "A" is
\* U+0041 and C3 A9 is U+00E9; the lone lead byte C3 is not UTF-8.
TextOf == [c \in {<<65>>, <<195, 169>>} |-> IF c = <<65>> THEN <<65>> ELSE <<233>>]

\* C12: onSerialData makes one broadcast of a data message, carrying the
\* node's name and the decoded text, to the handlers of the node's device
\* when the source is "serial" and the bytes are well-formed; otherwise it
\* makes none.  In both cases nothing reaches the caller as an exception and
\* the registry stays as it was.
C12_NodeDataForwarded ==
    [][last'.op = "data" =>
           /\ last'.error = "none"
           /\ sockets' = sockets
           /\ last'.sent = <<>>
           /\ IF last'.arg = "serial" /\ last'.chunk \in DOMAIN TextOf
              THEN /\ Len(last'.bcast) = 1
                   /\ last'.bcast[1].dev = deviceName(last'.node)
                   /\ last'.bcast[1].msg.type = "data"
                   /\ last'.bcast[1].msg.node = last'.node
                   /\ last'.bcast[1].msg.data = TextOf[last'.chunk]
                   /\ last'.bcast[1].targets = Members(sockets, last'.bcast[1].dev)
                   /\ last'.bcast[1].delivered =
                          {s \in last'.bcast[1].targets : CanSend(s)}
              ELSE last'.bcast = <<>>]_vars

\* C12 witness: a two-byte character has been decoded and delivered to a
\* handler of the node's device.
C12_Witness ==
    /\ last.op = "data" /\ last.chunk = <<195, 169>>
    /\ Len(last.bcast) = 1 /\ last.bcast[1].delivered # {}

\* Handler s has just joined its device.
Joined(s) == last.op = "open" /\ last.error = "none" /\ last.sub = s

\* sendConnectionInfo has just written to s a roster for d that lists the
\* host name of s.
RosterNamesSelf(s, d) ==
    /\ last.op = "roster" /\ last.dev = d
    /\ \E b \in LastBroadcasts :
           /\ s \in b.delivered
           /\ b.msg.type = "connections"
           /\ CachedName(remote_ip[s]) \in Range(b.msg.names)

\* C13: a successful open for D writes to the joining handler, and to no
\* other, exactly one message, a serial-state whose flag is D's link flag at
\* that moment; and when tasks are run fairly, a handler that joined D and
\* stays open is afterwards sent a roster for D that lists its own host.
C13_JoinGreeting ==
    /\ [][(last'.op = "open" /\ last'.error = "none") =>
              /\ Len(last'.sent) = 1
              /\ last'.sent[1].to = last'.sub
              /\ last'.sent[1].msg.type = "serial-state"
              /\ last'.sent[1].msg.connected = serialConnected[last'.dev]
              /\ last'.bcast = <<>>]_vars
    /\ \A s \in Subscribers :
           Joined(s) ~> (conn[s] # "open" \/ RosterNamesSelf(s, device[s]))

\* C13 witness: a handler of a device whose link is up has been sent a roster
\* that lists its own host.
C13_Witness ==
    \E s \in Subscribers, d \in DeviceNames :
        serialConnected[d] /\ RosterNamesSelf(s, d)

\* C14: a run-command request, whatever its answer (404, 403, an error, or
\* the executor called), writes no message to any handler and leaves the
\* registry, the scheduled roster tasks and the link flags the hub reads as
\* they were.
C14_CommandIsSilent ==
    [][last'.op = "command" =>
           /\ last'.sent = <<>> /\ last'.bcast = <<>>
           /\ sockets' = sockets
           /\ tasks' = tasks
           /\ serialConnected' = serialConnected]_vars

\* C14 witness: the executor has been called for a device that has a handler.
C14_Witness ==
    /\ last.op = "command" /\ last.calls # <<>>
    /\ Members(sockets, last.dev) # {}

C20_GreetingComesFirst ==
    \A s \in Subscribers :
        \A i \in DOMAIN inbox[s] :
            /\ (i = 1) <=> (inbox[s][i].op = "open")
            /\ inbox[s][i].op = "open" =>
                   (inbox[s][i].by = s /\ inbox[s][i].type = "serial-state")

\* C20 witness: a handler joined a device that already had a member, and has
\* since been sent the roster; the earlier member was sent the roster too.
C20_Witness ==
    \E s, t \in Subscribers :
        /\ s # t
        /\ Len(inbox[s]) >= 2 /\ inbox[s][2].type = "connections"
        /\ Len(inbox[t]) >= 2 /\ inbox[t][1].seq < inbox[s][1].seq
        /\ inbox[t][Len(inbox[t])].seq = inbox[s][2].seq

\* C17: socket.getfqdn is called at most once for each address, however many
\* different addresses are resolved over the life of the process.
C17_LookupOncePerAddress ==
    \A ip \in DOMAIN lookups : lookups[ip] <= 1

\* The handlers bound to device d by a successful open.
BoundTo(d) == {s \in Subscribers : device[s] = d}

\* C18: whatever a handler run sends for device D, a data message of one of
\* D's nodes, a serial-state message of D or D's roster, it sends to
\* handlers bound to D alone, and D's roster lists host names of D's own
\* members only.
C18_DeviceIsolation ==
    /\ \A b \in LastBroadcasts :
           /\ b.dev = last.dev
           /\ b.targets \subseteq BoundTo(b.dev)
           /\ b.msg.type = "data" => b.msg.node \in nodes[b.dev]
           /\ b.msg.type = "connections" =>
                  Range(b.msg.names) \subseteq
                      {CachedName(remote_ip[m]) : m \in Members(sockets, b.dev)}
    /\ \A m \in Range(last.sent) : m.to \in BoundTo(last.dev)

\* C18 witness: Lab's roster has been sent to Lab's handler while Rig had a
\* handler at another address, whose host name the roster does not list.
C18_Witness ==
    \E s, t \in Subscribers :
        /\ s \in Members(sockets, "Lab") /\ t \in Members(sockets, "Rig")
        /\ \E b \in LastBroadcasts :
               /\ b.dev = "Lab" /\ b.msg.type = "connections"
               /\ s \in b.delivered
               /\ CacheIndex(cache, remote_ip[t]) # {}
               /\ CachedName(remote_ip[t]) \notin Range(b.msg.names)

\* The handlers whose open succeeded and whose close notification has not
\* run.
Subscribed == {s \in Subscribers : conn[s] \in {"open", "severed"}}

\* C19: no handler run writes, or tries to write, to a connection whose open
\* has not succeeded or whose close notification has run; this holds for
\* a roster task too that was scheduled while the handler was a member and
\* runs after it left.
C19_NoDeliveryOutsideLifetime ==
    /\ \A b \in LastBroadcasts : b.targets \subseteq Subscribed
    /\ \A m \in Range(last.sent) : m.to \in Subscribed

\* C19 witness: the second roster task of a device, scheduled while two
\* handlers were members, has run after one of them was closed and has
\* written to the other.
C19_Witness ==
    \E s, t \in Subscribers :
        /\ last.op = "roster"
        /\ published[last.dev] = 2 /\ changes[last.dev] = 3
        /\ conn[t] = "closed" /\ device[t] = last.dev
        /\ \E b \in LastBroadcasts : s \in b.delivered

====
